---- MODULE Spec2Model ----
(***************************************************************************)
(* Model of src/src/platform/index.ts (open-balena-api): the transaction   *)
(* wrapper, the two upsert primitives, the per-request affected-ids memo   *)
(* and the cascading-delete PRERUN hook.                                   *)
(*                                                                         *)
(* The collaborators the file calls into (the pinejs store client, the     *)
(* pinejs db.transaction, sbvrUtils.getAffectedIds, captureException) are  *)
(* not part of the file; they are modelled at their boundary and each      *)
(* component is run under its own specification:                           *)
(*   SpecTx      wrapInTransaction / runInTransaction                      *)
(*   SpecUpsert  getOrInsertId / updateOrInsert                            *)
(*   SpecMemo    getCurrentRequestAffectedIds                              *)
(*   SpecCascade the DELETE PRERUN hook of addDeleteHookForDependents      *)
(***************************************************************************)
EXTENDS Integers, Sequences, FiniteSets, TLC

VARIABLES
    \* ---- transaction wrapper
    inv,        \* inv[i]: one invocation of a wrapped function
    txs,        \* the transactions db.transaction has opened, in order
    visible,    \* writes of wrapped operations that are committed
    \* ---- upsert primitives
    rows,       \* the store: the rows of every resource
    call,       \* call[p]: caller p's current (or last) upsert call
    prev,       \* the call before the current one, when it was an inserting getOrInsertId
    ncalls,     \* number of upsert calls made so far
    \* ---- request hooks
    affectedIds, \* affectedIds[r]: request r's custom.affectedIds
    promises,   \* the promises sbvrUtils.getAffectedIds has returned, in order
    memoLog,    \* the calls of getCurrentRequestAffectedIds and what each returned
    \* ---- cascading delete
    casc,       \* the DELETE request on the primary resource and its PRERUN hook
    wrows,      \* the rows as the request's transaction sees them
    crows,      \* the rows that are committed
    clog,       \* the deletes issued, completed and failed, in order
    captured    \* what captureException was called with, in order

txVars == <<inv, txs, visible>>
upsertVars == <<rows, call, prev, ncalls>>
memoVars == <<affectedIds, promises, memoLog>>
cascVars == <<casc, wrows, crows, clog, captured>>
vars == <<txVars, upsertVars, memoVars, cascVars>>
nonTxVars == <<upsertVars, memoVars, cascVars>>
nonUpsertVars == <<txVars, memoVars, cascVars>>
nonMemoVars == <<txVars, upsertVars, cascVars>>
nonHookVars == <<txVars, upsertVars>>

\* The components a specification does not run stay as they are here.
TxIdle == inv = <<>> /\ txs = <<>> /\ visible = {}
UpsertIdle == rows = {} /\ call = <<>> /\ prev = <<>> /\ ncalls = 0
MemoIdle == affectedIds = <<>> /\ promises = <<>> /\ memoLog = <<>>
CascIdle ==
    casc = <<>> /\ wrows = {} /\ crows = {} /\ clog = <<>> /\ captured = <<>>

(***************************************************************************)
(* Transaction wrapper                                                     *)
(***************************************************************************)

\* The wrapped operation performs at most this many writes.
MaxWrites == 2

Invs == {1, 2}
Values == {"v1", "v2"}
Errors == {"e1", "e2"}
NoTx == 0
Undefined == "undefined"

\* A promise's state: pending, resolved with a value, rejected with an error;
\* "thrown" is a synchronous throw of the function that should have returned it.
Pending == [kind |-> "pending", val |-> Undefined]
Resolved(v) == [kind |-> "resolved", val |-> v]
Rejected(e) == [kind |-> "rejected", val |-> e]
Thrown(e) == [kind |-> "thrown", val |-> e]
Failed(s) == s.kind \in {"rejected", "thrown"}
Settled(s) == s.kind # "pending"

\* What a wrapped operation does: a number of writes bound to the transaction
\* it is given, then its promise resolves or rejects; or it throws at once.
Plans ==
    [writes : 0..MaxWrites,
     outcome : {Resolved(v) : v \in Values} \cup {Rejected(e) : e \in Errors}]
    \cup [writes : {0}, outcome : {Thrown(e) : e \in Errors}]

IdleInv ==
    [pc |-> "idle", via |-> "none", plan |-> [writes |-> 0, outcome |-> Pending],
     tx |-> NoTx, fnTx |-> NoTx, awaited |-> "none", started |-> FALSE,
     written |-> 0, fnState |-> Pending, dbResult |-> Pending]

TxInit ==
    /\ inv = [i \in Invs |-> IdleInv]
    /\ txs = <<>>
    /\ visible = {}
    /\ UpsertIdle
    /\ MemoIdle
    /\ CascIdle

\* The writes of invocation i that the store shows to everybody.
VisibleOf(i) == {w \in visible : w[1] = i}
\* The transactions opened for invocation i.
TxsOf(i) == {t \in 1..Len(txs) : txs[t].owner = i}

\* function(...args) { return db.transaction(...) }: the wrapped function is
\* invoked and asks db.transaction for a transaction, handing it the callback.
Invoke(i, plan, via) ==
    /\ inv[i].pc = "idle"
    /\ inv' = [inv EXCEPT ![i] = [@ EXCEPT !.pc = "begin", !.plan = plan, !.via = via]]
    /\ UNCHANGED <<txs, visible, nonTxVars>>

wrapInTransaction(i, plan) == Invoke(i, plan, "wrap")

\* runInTransaction(fn, ...args): wraps fn and calls the wrapped function once.
runInTransaction(i, plan) == Invoke(i, plan, "run")

\* db.transaction opens a new transaction for the callback it was given.
DbBegin(i) ==
    /\ inv[i].pc = "begin"
    /\ txs' = Append(txs, [owner |-> i, state |-> "open", buf |-> {},
                           commits |-> 0, rollbacks |-> 0])
    /\ inv' = [inv EXCEPT ![i] = [@ EXCEPT !.pc = "opened", !.tx = Len(txs) + 1]]
    /\ UNCHANGED <<visible, nonTxVars>>

\* The operation is called with txArg as its first argument; db.transaction
\* waits for `awaited`: the operation's promise ("fn") or nothing ("none").
StartFn(i, txArg, awaited) ==
    /\ inv[i].pc = "opened"
    /\ inv' = [inv EXCEPT ![i] =
                 [@ EXCEPT !.pc = "awaiting", !.fnTx = txArg, !.awaited = awaited,
                           !.started = TRUE,
                           !.fnState = IF inv[i].plan.outcome.kind = "thrown"
                                       THEN inv[i].plan.outcome ELSE Pending]]
    /\ UNCHANGED <<txs, visible, nonTxVars>>

\* Faulty variant: tx => { fn.apply(this, [tx, ...args]); } (the promise is dropped).
TxCallbackNoReturn(i) == StartFn(i, inv[i].tx, "none")

\* Faulty variant: tx => fn.apply(this, args) (the transaction is not handed over).
TxCallbackNoTx(i) == StartFn(i, NoTx, "fn")

\* tx => fn.apply(this, [tx, ...args])
TxCallback(i) == StartFn(i, inv[i].tx, "fn")

\* The operation writes through the transaction handle it was given. A write
\* bound to no transaction is committed at once; a write on a transaction
\* that is already closed fails, and the operation with it.
FnWrite(i) ==
    /\ inv[i].started
    /\ inv[i].fnState.kind = "pending"
    /\ inv[i].written < inv[i].plan.writes
    /\ LET t == inv[i].fnTx
           w == <<i, inv[i].written + 1>>
       IN  IF t = NoTx
           THEN /\ visible' = visible \cup {w}
                /\ inv' = [inv EXCEPT ![i].written = @ + 1]
                /\ UNCHANGED <<txs, nonTxVars>>
           ELSE IF txs[t].state = "open"
           THEN /\ txs' = [txs EXCEPT ![t].buf = @ \cup {w}]
                /\ inv' = [inv EXCEPT ![i].written = @ + 1]
                /\ UNCHANGED <<visible, nonTxVars>>
           ELSE /\ inv' = [inv EXCEPT ![i].fnState = Rejected("txClosed")]
                /\ UNCHANGED <<txs, visible, nonTxVars>>

\* The operation's promise settles once its writes are done.
FnSettle(i) ==
    /\ inv[i].started
    /\ inv[i].fnState.kind = "pending"
    /\ inv[i].written = inv[i].plan.writes
    /\ inv' = [inv EXCEPT ![i].fnState = inv[i].plan.outcome]
    /\ UNCHANGED <<txs, visible, nonTxVars>>

\* What db.transaction sees of the callback's return value.
AwaitedState(i) ==
    IF inv[i].fnState.kind = "thrown" THEN inv[i].fnState
    ELSE IF inv[i].awaited = "fn" THEN inv[i].fnState
    ELSE Resolved(Undefined)

\* db.transaction: the callback's promise resolved, so the transaction is
\* committed and its writes become visible.
DbCommit(i) ==
    /\ inv[i].pc = "awaiting"
    /\ AwaitedState(i).kind = "resolved"
    /\ LET t == inv[i].tx
       IN  /\ txs' = [txs EXCEPT ![t] = [@ EXCEPT !.state = "committed",
                                                   !.commits = @ + 1, !.buf = {}]]
           /\ visible' = visible \cup txs[t].buf
    /\ inv' = [inv EXCEPT ![i] = [@ EXCEPT !.pc = "done", !.dbResult = AwaitedState(i)]]
    /\ UNCHANGED nonTxVars

\* db.transaction: the callback threw or its promise rejected, so the
\* transaction is rolled back and the error is passed on.
DbRollback(i) ==
    /\ inv[i].pc = "awaiting"
    /\ Failed(AwaitedState(i))
    /\ LET t == inv[i].tx
       IN  txs' = [txs EXCEPT ![t] = [@ EXCEPT !.state = "rolledback",
                                                !.rollbacks = @ + 1, !.buf = {}]]
    /\ inv' = [inv EXCEPT ![i] = [@ EXCEPT !.pc = "done",
                                           !.dbResult = Rejected(AwaitedState(i).val)]]
    /\ UNCHANGED <<visible, nonTxVars>>

\* Faulty variant: return db.transaction(...).catch(() => undefined)
wrappedResultSwallow(i) ==
    IF Failed(inv[i].dbResult) THEN Resolved(Undefined) ELSE inv[i].dbResult

\* The promise the wrapped function returns is db.transaction's own.
wrappedResult(i) == inv[i].dbResult

TxNext ==
    \/ \E i \in Invs, plan \in Plans : wrapInTransaction(i, plan)
    \/ \E i \in Invs, plan \in Plans : runInTransaction(i, plan)
    \/ \E i \in Invs : DbBegin(i)
    \/ \E i \in Invs : TxCallback(i)
    \/ \E i \in Invs : FnWrite(i)
    \/ \E i \in Invs : FnSettle(i)
    \/ \E i \in Invs : DbCommit(i)
    \/ \E i \in Invs : DbRollback(i)

SpecTx == TxInit /\ [][TxNext]_vars

(***************************************************************************)
(* Upsert primitives: getOrInsertId and updateOrInsert                     *)
(***************************************************************************)

\* The store holds at most this many rows before the first call.
MaxInitRows == 2

Callers == {1, 2}
CallNumbers == {1, 2}
Resources == {"device"}
Fields == {"k", "v"}
Vals == {"a", "b"}
Null == "null"

\* The objects callers pass as body, filter and updateFields: flat, non-empty.
Objs == UNION {[D -> Vals] : D \in (SUBSET Fields) \ {{}}}

IdObj(n) == [id |-> n]
Row(n, res, o) ==
    [id |-> n, res |-> res,
     fld |-> [f \in Fields |-> IF f \in DOMAIN o THEN o[f] ELSE Null]]
Ids(rs) == {r.id : r \in rs}

StoreError == [type |-> "storeError"]

\* `updateOrInsert filter not unique for '${resource}': '${JSON.stringify(filter)}'`
NotUniqueError(resource, filter) ==
    [type |-> "updateOrInsert filter not unique", resource |-> resource,
     filter |-> filter]

\* _.assign({}, a, b): the keys of both, b's value where both have one.
Assign(a, b) ==
    [x \in DOMAIN a \cup DOMAIN b |-> IF x \in DOMAIN b THEN b[x] ELSE a[x]]

\* Faulty variant: the first object's value wins.
MergeFirstWins(body, updateFields) == Assign(updateFields, body)

\* _.merge(body, updateFields): body's keys and updateFields' keys, with
\* updateFields' value where both have one. (_.merge recurses only into a
\* value that is a plain object or an array on both sides; the values of a
\* filter that doubles as the row to post are scalars.)
Merge(body, updateFields) == Assign(body, updateFields)

\* A $filter object of equalities holds of a row.
Matches(r, filter) == \A f \in DOMAIN filter : r.fld[f] = filter[f]

\* The rows a get of `resource` filtered by `filter` finds.
Found(resource, filter) == {r \in rows : r.res = resource /\ Matches(r, filter)}

\* The answers the store may give to that get with $select: 'id': the ids of
\* the rows found, in any order.
GetAnswers(resource, filter) ==
    LET S == {IdObj(r.id) : r \in Found(resource, filter)}
        n == Cardinality(S)
    IN  {s \in [1..n -> S] : \A i, j \in 1..n : i # j => s[i] # s[j]}

NoReq == [verb |-> "none"]
PostReq(resource, body) == [verb |-> "post", resource |-> resource, body |-> body]
PatchReq(resource, id, body) ==
    [verb |-> "patch", resource |-> resource, id |-> id, body |-> body]

IdleCall ==
    [pc |-> "idle", op |-> "none", n |-> 0, resource |-> "none", arg |-> <<>>,
     filter |-> <<>>, upd |-> <<>>, before |-> {}, answered |-> FALSE,
     results |-> <<>>,
     req |-> NoReq, writes |-> <<>>, result |-> Pending]

NoPrev == [op |-> "none"]

\* What is kept of a call once the next one starts: a getOrInsertId that
\* found no row and resolved is remembered, any other call is not.
Summary(c) ==
    IF c.op = "getOrInsertId" /\ c.pc = "done" /\ c.results = <<>>
       /\ c.result.kind = "resolved"
    THEN [op |-> c.op, resource |-> c.resource, arg |-> c.arg,
          results |-> c.results, writes |-> c.writes, result |-> c.result]
    ELSE NoPrev

InitStores ==
    {rs \in SUBSET {Row(n, res, o) : n \in 1..MaxInitRows, res \in Resources,
                                     o \in [Fields -> Vals]} :
        /\ Ids(rs) = 1..Cardinality(rs)
        /\ Cardinality(Ids(rs)) = Cardinality(rs)}

UpsertInit ==
    /\ rows \in InitStores
    /\ call = [p \in Callers |-> IdleCall]
    /\ prev = NoPrev
    /\ ncalls = 0
    /\ TxIdle
    /\ MemoIdle
    /\ CascIdle

\* A caller starts a call: the api is cloned and the get is issued.
StartCall(p, op, resource, filter, updateFields) ==
    /\ call[p].pc \in {"idle", "done"}
    /\ ncalls + 1 \in CallNumbers
    /\ ncalls' = ncalls + 1
    /\ prev' = Summary(call[p])
    /\ call' = [call EXCEPT ![p] =
                  [IdleCall EXCEPT !.pc = "get", !.op = op, !.n = ncalls + 1,
                                   !.resource = resource, !.arg = filter,
                                   !.filter = filter, !.upd = updateFields,
                                   !.before = rows]]
    /\ UNCHANGED <<rows, nonUpsertVars>>

\* _getOrInsertId(api, resource, body, tx): get with $filter: body.
getOrInsertId(p, resource, body) == StartCall(p, "getOrInsertId", resource, body, <<>>)

\* _updateOrInsert(api, resource, filter, updateFields, tx): get with $filter: filter.
updateOrInsert(p, resource, filter, updateFields) ==
    StartCall(p, "updateOrInsert", resource, filter, updateFields)

\* The store answers the get.
StoreGet(p) ==
    /\ call[p].pc = "get"
    /\ \E res \in GetAnswers(call[p].resource, call[p].filter) :
          call' = [call EXCEPT ![p] = [@ EXCEPT !.pc = "then", !.answered = TRUE,
                                                   !.results = res]]
    /\ UNCHANGED <<rows, prev, ncalls, nonUpsertVars>>

\* The store fails the request in flight (get, post or patch); nothing in
\* the code catches it, so the call's promise rejects with the store's error.
StoreFail(p) ==
    /\ call[p].pc \in {"get", "post", "patch"}
    /\ call' = [call EXCEPT ![p] = [@ EXCEPT !.pc = "done", !.req = NoReq,
                                             !.result = Rejected(StoreError)]]
    /\ UNCHANGED <<rows, prev, ncalls, nonUpsertVars>>

\* The call issues a write request to the store.
Issue(c, pc, req) == [c EXCEPT !.pc = pc, !.req = req, !.writes = Append(@, req)]

\* Faulty variant: `results.length === 0` dropped, the body is always posted.
GoiThenAlwaysPost(p) ==
    /\ call[p].pc = "then"
    /\ call[p].op = "getOrInsertId"
    /\ call' = [call EXCEPT ![p] =
                  Issue(@, "post", PostReq(call[p].resource, call[p].filter))]
    /\ UNCHANGED <<rows, prev, ncalls, nonUpsertVars>>

\* Faulty variant: more than one row found is an error, as in _updateOrInsert.
GoiThenFailOnMany(p) ==
    /\ call[p].pc = "then"
    /\ call[p].op = "getOrInsertId"
    /\ IF Len(call[p].results) = 0
       THEN call' = [call EXCEPT ![p] =
                       Issue(@, "post", PostReq(call[p].resource, call[p].filter))]
       ELSE IF Len(call[p].results) > 1
       THEN call' = [call EXCEPT ![p] =
                       [@ EXCEPT !.pc = "done",
                                 !.result = Rejected(NotUniqueError(call[p].resource,
                                                                    call[p].filter))]]
       ELSE call' = [call EXCEPT ![p] =
                       [@ EXCEPT !.pc = "done",
                                 !.result = Resolved(call[p].results[1])]]
    /\ UNCHANGED <<rows, prev, ncalls, nonUpsertVars>>

\* _getOrInsertId's .then(results => ...): post the body when nothing was
\* found, else return the first result.
GoiThen(p) ==
    /\ call[p].pc = "then"
    /\ call[p].op = "getOrInsertId"
    /\ IF Len(call[p].results) = 0
       THEN call' = [call EXCEPT ![p] =
                       Issue(@, "post", PostReq(call[p].resource, call[p].filter))]
       ELSE call' = [call EXCEPT ![p] =
                       [@ EXCEPT !.pc = "done",
                                 !.result = Resolved(call[p].results[1])]]
    /\ UNCHANGED <<rows, prev, ncalls, nonUpsertVars>>

\* const body = _.cloneDeep(filter); _.merge(body, updateFields): the body
\* posted, and the caller's filter object afterwards.
InsertBody(filter, updateFields) ==
    [body |-> Merge(filter, updateFields), filter |-> filter]

\* Faulty variant: the `results.length > 1` branch is missing, the first row found
\* is patched.
UoiThenPatchFirst(p) ==
    /\ call[p].pc = "then"
    /\ call[p].op = "updateOrInsert"
    /\ LET c == call[p]
           ib == InsertBody(c.filter, c.upd)
       IN  IF Len(c.results) = 0
           THEN call' = [call EXCEPT ![p] =
                           Issue([c EXCEPT !.filter = ib.filter], "post",
                                 PostReq(c.resource, ib.body))]
           ELSE call' = [call EXCEPT ![p] =
                           Issue(c, "patch",
                                 PatchReq(c.resource, c.results[1].id, c.upd))]
    /\ UNCHANGED <<rows, prev, ncalls, nonUpsertVars>>

\* Faulty variant: `results.length >= 1` throws, so a unique match is refused too.
UoiThenNeverPatch(p) ==
    /\ call[p].pc = "then"
    /\ call[p].op = "updateOrInsert"
    /\ LET c == call[p]
           ib == InsertBody(c.filter, c.upd)
       IN  IF Len(c.results) = 0
           THEN call' = [call EXCEPT ![p] =
                           Issue([c EXCEPT !.filter = ib.filter], "post",
                                 PostReq(c.resource, ib.body))]
           ELSE call' = [call EXCEPT ![p] =
                           [c EXCEPT !.pc = "done",
                                     !.result = Rejected(NotUniqueError(c.resource,
                                                                        c.filter))]]
    /\ UNCHANGED <<rows, prev, ncalls, nonUpsertVars>>

\* Faulty variant: every row found is patched, one request per row.
UoiThenPatchAll(p) ==
    /\ call[p].pc = "then"
    /\ call[p].op = "updateOrInsert"
    /\ LET c == call[p]
           ib == InsertBody(c.filter, c.upd)
       IN  IF Len(c.results) = 0
           THEN call' = [call EXCEPT ![p] =
                           Issue([c EXCEPT !.filter = ib.filter], "post",
                                 PostReq(c.resource, ib.body))]
           ELSE call' = [call EXCEPT ![p] =
                           [c EXCEPT !.pc = "patch",
                                     !.req = PatchReq(c.resource, c.results[1].id, c.upd),
                                     !.writes = [i \in 1..Len(c.results) |->
                                                   PatchReq(c.resource, c.results[i].id,
                                                            c.upd)]]]
    /\ UNCHANGED <<rows, prev, ncalls, nonUpsertVars>>

\* Variant that closes the race: when the lookup found nothing the store is
\* asked again and the row inserted in the same step, and a row that has
\* appeared in between is returned instead.
UoiThenAtomic(p) ==
    /\ call[p].pc = "then"
    /\ call[p].op = "updateOrInsert"
    /\ LET c == call[p]
           ib == InsertBody(c.filter, c.upd)
           now == Found(c.resource, c.filter)
           n == Cardinality(rows) + 1
       IN  IF Len(c.results) = 0 /\ now = {}
           THEN /\ rows' = rows \cup {Row(n, c.resource, ib.body)}
                /\ call' = [call EXCEPT ![p] =
                              [Issue(c, "done", PostReq(c.resource, ib.body))
                                  EXCEPT !.req = NoReq, !.result = Resolved(IdObj(n))]]
           ELSE IF Len(c.results) = 0
           THEN /\ rows' = rows
                /\ call' = [call EXCEPT ![p] =
                              [c EXCEPT !.pc = "done",
                                        !.result = Resolved(IdObj(
                                            CHOOSE i \in Ids(now) : \A j \in Ids(now) : i <= j))]]
           ELSE IF Len(c.results) > 1
           THEN /\ rows' = rows
                /\ call' = [call EXCEPT ![p] =
                              [c EXCEPT !.pc = "done",
                                        !.result = Rejected(NotUniqueError(c.resource,
                                                                           c.filter))]]
           ELSE /\ rows' = rows
                /\ call' = [call EXCEPT ![p] =
                              Issue(c, "patch",
                                    PatchReq(c.resource, c.results[1].id, c.upd))]
    /\ UNCHANGED <<prev, ncalls, nonUpsertVars>>

\* _updateOrInsert's .then(results => ...): post filter merged with
\* updateFields when nothing was found, throw when more than one row was
\* found, else patch the one row by its id.
UoiThen(p) ==
    /\ call[p].pc = "then"
    /\ call[p].op = "updateOrInsert"
    /\ LET c == call[p]
           ib == InsertBody(c.filter, c.upd)
       IN  IF Len(c.results) = 0
           THEN call' = [call EXCEPT ![p] =
                           Issue([c EXCEPT !.filter = ib.filter], "post",
                                 PostReq(c.resource, ib.body))]
           ELSE IF Len(c.results) > 1
           THEN call' = [call EXCEPT ![p] =
                           [c EXCEPT !.pc = "done",
                                     !.result = Rejected(NotUniqueError(c.resource,
                                                                        c.filter))]]
           ELSE call' = [call EXCEPT ![p] =
                           Issue(c, "patch",
                                 PatchReq(c.resource, c.results[1].id, c.upd))]
    /\ UNCHANGED <<rows, prev, ncalls, nonUpsertVars>>

\* What the call's promise resolves to once the post has answered idObj:
\* _getOrInsertId's .then(idObj => _.assign({}, idObj, body)); _updateOrInsert
\* returns the post's own promise.
PostResult(c, idObj) ==
    IF c.op = "getOrInsertId" THEN Assign(idObj, c.filter) ELSE idObj

\* The store executes the post: a new row with a fresh id and the body's
\* fields; with returnResource: false it answers the new id.
StorePost(p) ==
    /\ call[p].pc = "post"
    /\ LET c == call[p]
           n == Cardinality(rows) + 1
       IN  /\ rows' = rows \cup {Row(n, c.req.resource, c.req.body)}
           /\ call' = [call EXCEPT ![p] =
                         [c EXCEPT !.pc = "done", !.req = NoReq,
                                   !.result = Resolved(PostResult(c, IdObj(n)))]]
    /\ UNCHANGED <<prev, ncalls, nonUpsertVars>>

\* The store executes the patch of the row with the given id: the fields of
\* the body are set, the others kept; .return(results[0]) resolves the call.
StorePatch(p) ==
    /\ call[p].pc = "patch"
    /\ LET c == call[p]
       IN  /\ rows' = {IF r.res = c.req.resource /\ r.id = c.req.id
                       THEN [r EXCEPT !.fld = Assign(r.fld, c.req.body)]
                       ELSE r : r \in rows}
           /\ call' = [call EXCEPT ![p] =
                         [c EXCEPT !.pc = "done", !.req = NoReq,
                                   !.result = Resolved(c.results[1])]]
    /\ UNCHANGED <<prev, ncalls, nonUpsertVars>>

\* Calls are made one after the other by one caller.
UpsertNext ==
    \/ \E r \in Resources, b \in Objs : getOrInsertId(1, r, b)
    \/ \E r \in Resources, f \in Objs, u \in Objs : updateOrInsert(1, r, f, u)
    \/ StoreGet(1)
    \/ StoreFail(1)
    \/ GoiThen(1)
    \/ UoiThen(1)
    \/ StorePost(1)
    \/ StorePatch(1)

SpecUpsert == UpsertInit /\ [][UpsertNext]_vars

(***************************************************************************)
(* Upsert primitives called concurrently: two callers, each making its     *)
(* calls one after the other, all on one filter                            *)
(***************************************************************************)

\* The two callers make at most this many calls together.
MaxRaceCalls == 4

\* The body of getOrInsertId and the filter of updateOrInsert.
RaceFilter == [k |-> "a"]
\* The updateFields: one leaves the filtered field alone, one changes it.
RaceUpdates == {[v |-> "b"], [k |-> "b"]}
\* The store before the first call: no row matches the filter.
RaceStores == {{}, {Row(1, "device", [k |-> "b"])}}

RaceInit ==
    /\ rows \in RaceStores
    /\ call = [p \in Callers |-> IdleCall]
    /\ prev = NoPrev
    /\ ncalls = 0
    /\ TxIdle
    /\ MemoIdle
    /\ CascIdle

\* A caller starts a call while the other caller's call may be in flight:
\* the api is cloned and the get is issued.
RaceStartCall(p, op, filter, updateFields) ==
    /\ call[p].pc \in {"idle", "done"}
    /\ ncalls < MaxRaceCalls
    /\ ncalls' = ncalls + 1
    /\ call' = [call EXCEPT ![p] =
                  [IdleCall EXCEPT !.pc = "get", !.op = op, !.n = ncalls + 1,
                                   !.resource = "device", !.arg = filter,
                                   !.filter = filter, !.upd = updateFields,
                                   !.before = rows]]
    /\ UNCHANGED <<rows, prev, nonUpsertVars>>

RaceGetOrInsertId(p) == RaceStartCall(p, "getOrInsertId", RaceFilter, <<>>)
RaceUpdateOrInsert(p, updateFields) ==
    RaceStartCall(p, "updateOrInsert", RaceFilter, updateFields)

RaceNext ==
    \/ \E p \in Callers : RaceGetOrInsertId(p)
    \/ \E p \in Callers, u \in RaceUpdates : RaceUpdateOrInsert(p, u)
    \/ \E p \in Callers : StoreGet(p)
    \/ \E p \in Callers : StoreFail(p)
    \/ \E p \in Callers : GoiThen(p)
    \/ \E p \in Callers : UoiThen(p)
    \/ \E p \in Callers : StorePost(p)
    \/ \E p \in Callers : StorePatch(p)

SpecRace == RaceInit /\ [][RaceNext]_vars

(***************************************************************************)
(* Request hooks: the memo of the affected ids                             *)
(***************************************************************************)

\* getCurrentRequestAffectedIds is called at most this many times.
MaxMemoCalls == 3

Reqs == {1, 2}
\* What tells two args objects of the same request apart (their api, tx, ...).
ArgTags == {"a", "b"}
PrimaryIds == {1, 2}
\* custom.affectedIds of a request nobody has asked yet (== null).
NoPromise == 0

MemoInit ==
    /\ affectedIds = [r \in Reqs |-> NoPromise]
    /\ promises = <<>>
    /\ memoLog = <<>>
    /\ TxIdle
    /\ UpsertIdle
    /\ CascIdle

\* sbvrUtils.getAffectedIds(args): a new computation, still in flight.
NewPromise(r, tag) == [req |-> r, args |-> tag, state |-> Pending]

\* Faulty variant: the promise is returned without being kept on the request.
getCurrentRequestAffectedIdsNoStore(r, tag) ==
    /\ promises' = Append(promises, NewPromise(r, tag))
    /\ memoLog' = Append(memoLog, [req |-> r, args |-> tag, ret |-> Len(promises) + 1,
                                   seen |-> "pending"])
    /\ UNCHANGED affectedIds

\* Faulty variant: a stored computation that has failed is dropped and the
\* ids are computed again.
getCurrentRequestAffectedIdsRetry(r, tag) ==
    /\ IF affectedIds[r] = NoPromise \/ Failed(promises[affectedIds[r]].state)
       THEN /\ promises' = Append(promises, NewPromise(r, tag))
            /\ affectedIds' = [affectedIds EXCEPT ![r] = Len(promises) + 1]
       ELSE UNCHANGED <<affectedIds, promises>>
    /\ memoLog' = Append(memoLog, [req |-> r, args |-> tag, ret |-> affectedIds'[r],
                                   seen |-> promises'[affectedIds'[r]].state.kind])

\* getCurrentRequestAffectedIds(args): when args.request.custom.affectedIds
\* is null it is set to what sbvrUtils.getAffectedIds(args) returns; it is
\* what the call returns.
getCurrentRequestAffectedIds(r, tag) ==
    /\ IF affectedIds[r] = NoPromise
       THEN /\ promises' = Append(promises, NewPromise(r, tag))
            /\ affectedIds' = [affectedIds EXCEPT ![r] = Len(promises) + 1]
       ELSE UNCHANGED <<affectedIds, promises>>
    /\ memoLog' = Append(memoLog, [req |-> r, args |-> tag, ret |-> affectedIds'[r],
                                   seen |-> promises'[affectedIds'[r]].state.kind])

\* A hook of request r asks for the affected ids.
MemoCall(r, tag) ==
    /\ Len(memoLog) < MaxMemoCalls
    /\ getCurrentRequestAffectedIds(r, tag)
    /\ UNCHANGED nonMemoVars

\* The computation of sbvrUtils.getAffectedIds ends: with the ids, or with
\* an error.
ResolverSettle(i) ==
    /\ i \in 1..Len(promises)
    /\ promises[i].state.kind = "pending"
    /\ \E out \in {Resolved(ids) : ids \in SUBSET PrimaryIds} \cup {Rejected(StoreError)} :
          promises' = [promises EXCEPT ![i].state = out]
    /\ UNCHANGED <<affectedIds, memoLog, nonHookVars>>

\* The computation ends while hooks ask for the ids.
MemoResolverSettle(i) ==
    /\ ResolverSettle(i)
    /\ UNCHANGED cascVars

MemoNext ==
    \/ \E r \in Reqs, tag \in ArgTags : MemoCall(r, tag)
    \/ \E i \in 1..MaxMemoCalls : MemoResolverSettle(i)

SpecMemo == MemoInit /\ [][MemoNext]_vars

(***************************************************************************)
(* Request hooks: the PRERUN hook of addDeleteHookForDependents            *)
(***************************************************************************)

\* The dependents list a hook is registered with has at most this many entries.
MaxDeps == 2

Primary == "device"
DepResources == {"device_config_variable", "device_environment_variable"}
SubResources == {"image_install"}
FkFields == {"device", "gateway"}
NoSub == [resource |-> "none", field |-> "none"]
\* The request whose DELETE is modelled.
TheReq == CHOOSE r \in Reqs : \A q \in Reqs : r <= q

\* dependents: [string, string, string[]?][]
DepEntries ==
    [dependent : DepResources, field : FkFields,
     sub : {NoSub} \cup [resource : SubResources, field : FkFields]]
DepLists == UNION {[1..n -> DepEntries] : n \in 0..MaxDeps}

\* The rows before the request: the two primary rows and, for every other
\* resource, one row for each pair of values of its two foreign keys.
CascRow(res, id, a, b) ==
    [res |-> res, id |-> id, fld |-> [f \in FkFields |-> IF f = "device" THEN a ELSE b]]
CascInitRows ==
    {CascRow(Primary, i, i, i) : i \in PrimaryIds}
    \cup {CascRow(res, 10 * a + b, a, b) :
            res \in DepResources \cup SubResources, a \in PrimaryIds, b \in PrimaryIds}

IdleCasc(deps) ==
    [pc |-> "idle", resource |-> Primary, deps |-> deps, promise |-> NoPromise,
     ids |-> {}, started |-> {}, finished |-> {}, pending |-> {},
     error |-> [type |-> "none"]]

\* addDeleteHookForDependents(resource, dependents) has registered the hook.
CascInit ==
    /\ casc \in {IdleCasc(deps) : deps \in DepLists}
    /\ wrows = CascInitRows
    /\ crows = CascInitRows
    /\ clog = <<>>
    /\ captured = <<>>
    /\ affectedIds = [r \in Reqs |-> NoPromise]
    /\ promises = <<>>
    /\ memoLog = <<>>
    /\ TxIdle
    /\ UpsertIdle

\* api.delete({resource, options: {$filter: {[field]: {$in: ids}}}}) issued
\* for entry idx of the dependents list, for the dependent or its sub-dependent.
DeleteReq(idx, level, resource, field, ids) ==
    [idx |-> idx, level |-> level, resource |-> resource, field |-> field, ids |-> ids]
\* Faulty variant: the $filter is left out, every row of the dependent goes.
DepReqUnfiltered(c, idx) ==
    DeleteReq(idx, "dep", c.deps[idx].dependent, c.deps[idx].field, PrimaryIds)
DepReq(c, idx) ==
    DeleteReq(idx, "dep", c.deps[idx].dependent, c.deps[idx].field, c.ids)
SubReq(c, idx) ==
    DeleteReq(idx, "sub", c.deps[idx].sub.resource, c.deps[idx].sub.field, c.ids)

Event(ev, q) == [ev |-> ev, idx |-> q.idx, level |-> q.level, resource |-> q.resource]

\* The elements of a set of numbers, in increasing order.
Sorted(S) ==
    [k \in 1..Cardinality(S) |->
        CHOOSE x \in S : Cardinality({y \in S : y < x}) = k - 1]

\* Faulty variant: Promise.map, which calls the mapper for every entry at once.
mapAll(n, finished) == 1..n

\* Promise.mapSeries(dependents, mapper): the entries whose mapper has been
\* called once the mappers of the entries in `finished` have resolved; an
\* entry's mapper is called when those of all entries before it have.
mapSeries(n, finished) == {i \in 1..n : \A j \in 1..(i - 1) : j \in finished}

\* The mappers that are due are called, each issuing the delete of its
\* dependent; when every mapper has resolved, so has the hook.
Schedule(c, finished) ==
    LET new == mapSeries(Len(c.deps), finished) \ c.started
    IN  [c EXCEPT !.finished = finished,
                  !.started = @ \cup new,
                  !.pending = @ \cup {DepReq(c, i) : i \in new},
                  !.pc = IF finished = 1..Len(c.deps) THEN "ok" ELSE "running"]
Issued(c, finished) ==
    LET new == Sorted(mapSeries(Len(c.deps), finished) \ c.started)
    IN  [k \in 1..Len(new) |-> Event("issue", DepReq(c, new[k]))]

\* A DELETE of rows of the primary resource arrives; its transaction starts.
DeleteRequest ==
    /\ casc.pc = "idle"
    /\ casc' = [casc EXCEPT !.pc = "prerun"]
    /\ UNCHANGED <<wrows, crows, clog, captured, memoVars, nonHookVars>>

\* PRERUN: args => getCurrentRequestAffectedIds(args).then(...)
Prerun ==
    /\ casc.pc = "prerun"
    /\ getCurrentRequestAffectedIds(TheReq, "a")
    /\ casc' = [casc EXCEPT !.pc = "ids", !.promise = affectedIds'[TheReq]]
    /\ UNCHANGED <<wrows, crows, clog, captured, nonHookVars>>

\* Faulty variant: `if (resourceIds.length === 0) return` is missing.
PrerunThenNoGuard ==
    /\ casc.pc = "ids"
    /\ LET st == promises[casc.promise].state
       IN  /\ Settled(st)
           /\ IF Failed(st)
              THEN /\ casc' = [casc EXCEPT !.pc = "failed", !.error = st.val]
                   /\ UNCHANGED clog
              ELSE LET c == [casc EXCEPT !.ids = st.val]
                   IN  /\ casc' = Schedule(c, {})
                       /\ clog' = clog \o Issued(c, {})
    /\ UNCHANGED <<wrows, crows, captured, memoVars, nonHookVars>>

\* .then(resourceIds => ...): nothing to do for no ids, else the dependents
\* are gone through with Promise.mapSeries. A failed lookup fails the hook.
PrerunThen ==
    /\ casc.pc = "ids"
    /\ LET st == promises[casc.promise].state
       IN  /\ Settled(st)
           /\ IF Failed(st)
              THEN /\ casc' = [casc EXCEPT !.pc = "failed", !.error = st.val]
                   /\ UNCHANGED clog
              ELSE IF st.val = {}
              THEN /\ casc' = [casc EXCEPT !.pc = "ok"]
                   /\ UNCHANGED clog
              ELSE LET c == [casc EXCEPT !.ids = st.val]
                   IN  /\ casc' = Schedule(c, {})
                       /\ clog' = clog \o Issued(c, {})
    /\ UNCHANGED <<wrows, crows, captured, memoVars, nonHookVars>>

\* The store's delete: the rows of the resource whose field is in ids go.
DeleteWhere(rs, q) ==
    {r \in rs : ~(r.res = q.resource /\ r.fld[q.field] \in q.ids)}

\* Faulty variant: the delete goes through a client that is not bound to the
\* request's transaction, so what it removes is committed at once.
DepDeleteOkNoTx(q) ==
    /\ casc.pc = "running"
    /\ q \in casc.pending /\ q.level = "dep"
    /\ wrows' = DeleteWhere(wrows, q)
    /\ crows' = DeleteWhere(crows, q)
    /\ LET c == [casc EXCEPT !.pending = @ \ {q}]
       IN  IF c.deps[q.idx].sub # NoSub
           THEN /\ casc' = [c EXCEPT !.pending = @ \cup {SubReq(c, q.idx)}]
                /\ clog' = clog \o <<Event("ok", q), Event("issue", SubReq(c, q.idx))>>
           ELSE /\ casc' = Schedule(c, c.finished \cup {q.idx})
                /\ clog' = clog \o <<Event("ok", q)>>
                                \o Issued(c, c.finished \cup {q.idx})
    /\ UNCHANGED <<captured, memoVars, nonHookVars>>

\* The delete of a dependent succeeds: .then(() => { if (subDependent != null)
\* ... }) issues the delete of the sub-dependent, or the mapper has resolved.
DepDeleteOk(q) ==
    /\ casc.pc = "running"
    /\ q \in casc.pending /\ q.level = "dep"
    /\ wrows' = DeleteWhere(wrows, q)
    /\ LET c == [casc EXCEPT !.pending = @ \ {q}]
       IN  IF c.deps[q.idx].sub # NoSub
           THEN /\ casc' = [c EXCEPT !.pending = @ \cup {SubReq(c, q.idx)}]
                /\ clog' = clog \o <<Event("ok", q), Event("issue", SubReq(c, q.idx))>>
           ELSE /\ casc' = Schedule(c, c.finished \cup {q.idx})
                /\ clog' = clog \o <<Event("ok", q)>>
                                \o Issued(c, c.finished \cup {q.idx})
    /\ UNCHANGED <<crows, captured, memoVars, nonHookVars>>

\* The delete of a sub-dependent succeeds: .return(), the mapper has resolved.
SubDeleteOk(q) ==
    /\ casc.pc = "running"
    /\ q \in casc.pending /\ q.level = "sub"
    /\ wrows' = DeleteWhere(wrows, q)
    /\ LET c == [casc EXCEPT !.pending = @ \ {q}]
       IN  /\ casc' = Schedule(c, c.finished \cup {q.idx})
           /\ clog' = clog \o <<Event("ok", q)>> \o Issued(c, c.finished \cup {q.idx})
    /\ UNCHANGED <<crows, captured, memoVars, nonHookVars>>

\* captureException(err, `Error deleting resource '${dependent}' before
\* deleting '${resource}' `, {req})
DepReport(err, dependent, resource, req) ==
    [err |-> err, resource |-> dependent, parent |-> resource, req |-> req]

\* captureException(err, 'Error deleting ' + depResource, {req})
SubReport(err, depResource, req) ==
    [err |-> err, resource |-> depResource, parent |-> "none", req |-> req]

\* Faulty variant: .catch in place of .tapCatch, so the error is reported and
\* dropped and the .then after it runs as if the delete had succeeded.
DepDeleteFailSwallowed(q) ==
    /\ casc.pc = "running"
    /\ q \in casc.pending /\ q.level = "dep"
    /\ captured' = Append(captured, DepReport(StoreError, q.resource, casc.resource, TheReq))
    /\ LET c == [casc EXCEPT !.pending = @ \ {q}]
       IN  IF c.deps[q.idx].sub # NoSub
           THEN /\ casc' = [c EXCEPT !.pending = @ \cup {SubReq(c, q.idx)}]
                /\ clog' = clog \o <<Event("fail", q), Event("issue", SubReq(c, q.idx))>>
           ELSE /\ casc' = Schedule(c, c.finished \cup {q.idx})
                /\ clog' = clog \o <<Event("fail", q)>>
                                \o Issued(c, c.finished \cup {q.idx})
    /\ UNCHANGED <<wrows, crows, memoVars, nonHookVars>>

\* The delete of a dependent fails: .tapCatch reports it and the error goes
\* on, so the mapper, mapSeries and the hook reject with it.
DepDeleteFail(q) ==
    /\ casc.pc = "running"
    /\ q \in casc.pending /\ q.level = "dep"
    /\ captured' = Append(captured, DepReport(StoreError, q.resource, casc.resource, TheReq))
    /\ casc' = [casc EXCEPT !.pc = "failed", !.error = StoreError, !.pending = @ \ {q}]
    /\ clog' = Append(clog, Event("fail", q))
    /\ UNCHANGED <<wrows, crows, memoVars, nonHookVars>>

\* Faulty variant: the dependent's .tapCatch is chained after the .then, so a
\* failure of the sub-dependent passes through both handlers.
SubDeleteFailReportedTwice(q) ==
    /\ casc.pc = "running"
    /\ q \in casc.pending /\ q.level = "sub"
    /\ captured' = captured \o
          <<SubReport(StoreError, q.resource, TheReq),
            DepReport(StoreError, casc.deps[q.idx].dependent, casc.resource, TheReq)>>
    /\ casc' = [casc EXCEPT !.pc = "failed", !.error = StoreError, !.pending = @ \ {q}]
    /\ clog' = Append(clog, Event("fail", q))
    /\ UNCHANGED <<wrows, crows, memoVars, nonHookVars>>

\* The delete of a sub-dependent fails: its own .tapCatch reports it and the
\* error goes on; the dependent's .tapCatch sits before the .then and does
\* not see it.
SubDeleteFail(q) ==
    /\ casc.pc = "running"
    /\ q \in casc.pending /\ q.level = "sub"
    /\ captured' = Append(captured, SubReport(StoreError, q.resource, TheReq))
    /\ casc' = [casc EXCEPT !.pc = "failed", !.error = StoreError, !.pending = @ \ {q}]
    /\ clog' = Append(clog, Event("fail", q))
    /\ UNCHANGED <<wrows, crows, memoVars, nonHookVars>>

\* The hook succeeded: the store runs the DELETE of the primary rows.
PrimaryDelete ==
    /\ casc.pc = "ok"
    /\ wrows' = {r \in wrows : ~(r.res = casc.resource /\ r.id \in casc.ids)}
    /\ clog' = Append(clog, [ev |-> "primaryDelete", idx |-> 0, level |-> "primary",
                             resource |-> casc.resource])
    /\ casc' = [casc EXCEPT !.pc = "deleted"]
    /\ UNCHANGED <<crows, captured, memoVars, nonHookVars>>

\* The request succeeded: its transaction is committed.
CascCommit ==
    /\ casc.pc = "deleted"
    /\ crows' = wrows
    /\ casc' = [casc EXCEPT !.pc = "committed"]
    /\ UNCHANGED <<wrows, clog, captured, memoVars, nonHookVars>>

\* The hook failed: the request fails and its transaction is rolled back.
CascRollback ==
    /\ casc.pc = "failed"
    /\ wrows' = crows
    /\ casc' = [casc EXCEPT !.pc = "rolledback"]
    /\ UNCHANGED <<crows, clog, captured, memoVars, nonHookVars>>

\* The computation of the affected ids ends (within the DELETE request).
CascResolverSettle(i) ==
    /\ ResolverSettle(i)
    /\ UNCHANGED cascVars

AllDeleteReqs ==
    {DeleteReq(i, lv, res, f, ids) :
        i \in 1..MaxDeps, lv \in {"dep", "sub"}, res \in DepResources \cup SubResources,
        f \in FkFields, ids \in SUBSET PrimaryIds}

CascNext ==
    \/ DeleteRequest
    \/ Prerun
    \/ \E i \in 1..MaxMemoCalls : CascResolverSettle(i)
    \/ PrerunThen
    \/ \E q \in AllDeleteReqs : DepDeleteOk(q)
    \/ \E q \in AllDeleteReqs : SubDeleteOk(q)
    \/ \E q \in AllDeleteReqs : DepDeleteFail(q)
    \/ \E q \in AllDeleteReqs : SubDeleteFail(q)
    \/ PrimaryDelete
    \/ CascCommit
    \/ CascRollback

SpecCascade == CascInit /\ [][CascNext]_vars

(***************************************************************************)
(* Claims about the transaction wrapper (checked under SpecTx)             *)
(***************************************************************************)

TxClosed(t) == txs[t].commits + txs[t].rollbacks

\* C1: every invocation of a wrapped function (or of runInTransaction) opens
\* exactly one new transaction, on which exactly one of commit and rollback
\* happens: commit exactly when the operation resolved, rollback exactly when
\* it rejected or threw, and neither before the operation's promise settled.
C1_OneTxOneOutcome ==
    \A i \in Invs :
        /\ inv[i].pc \in {"idle", "begin"} => TxsOf(i) = {}
        /\ inv[i].pc \notin {"idle", "begin"} =>
              /\ Cardinality(TxsOf(i)) = 1
              /\ TxsOf(i) = {inv[i].tx}
        /\ \A t \in TxsOf(i) :
              /\ TxClosed(t) <= 1
              /\ TxClosed(t) = 1 => Settled(inv[i].fnState)
              /\ txs[t].commits = 1 => inv[i].fnState.kind = "resolved"
              /\ txs[t].rollbacks = 1 => Failed(inv[i].fnState)
              /\ inv[i].pc = "done" =>
                    /\ TxClosed(t) = 1
                    /\ inv[i].fnState.kind = "resolved" => txs[t].commits = 1
                    /\ Failed(inv[i].fnState) => txs[t].rollbacks = 1

\* C1 witness: one invocation has committed its transaction while another,
\* made through the other entry point, has rolled its own back.
C1_Witness ==
    \E i, j \in Invs :
        /\ inv[i].pc = "done" /\ inv[i].via = "wrap" /\ txs[inv[i].tx].commits = 1
        /\ inv[j].pc = "done" /\ inv[j].via = "run" /\ txs[inv[j].tx].rollbacks = 1
        /\ inv[i].tx # inv[j].tx

AllWrites(i) == {<<i, n>> : n \in 1..inv[i].plan.writes}

\* C2: the writes an operation made through its transaction become visible
\* all together or not at all: none is visible after the operation threw,
\* all are visible after it returned normally, and at no time is only a part
\* of them visible.
C2_AllOrNothing ==
    \A i \in Invs :
        /\ VisibleOf(i) \in {{}, AllWrites(i)}
        /\ (inv[i].pc = "done" /\ Failed(inv[i].fnState)) => VisibleOf(i) = {}
        /\ (inv[i].pc = "done" /\ inv[i].fnState.kind = "resolved") =>
              VisibleOf(i) = AllWrites(i)

\* C2 witness: an operation made two writes and then failed, leaving none
\* visible, and another made two writes and returned, leaving both visible.
C2_Witness ==
    \E i, j \in Invs :
        /\ inv[i].pc = "done" /\ inv[i].written = 2 /\ inv[i].fnState.kind = "rejected"
        /\ VisibleOf(i) = {}
        /\ inv[j].pc = "done" /\ inv[j].written = 2 /\ inv[j].fnState.kind = "resolved"
        /\ VisibleOf(j) = {<<j, 1>>, <<j, 2>>}

\* C3: the promise a wrapped function returns settles as the operation did,
\* and only after the transaction was closed: rejected with the operation's
\* own error after the rollback, resolved with its value after the commit.
C3_ResultPropagated ==
    \A i \in Invs :
        /\ Settled(wrappedResult(i)) =>
              /\ inv[i].tx # NoTx
              /\ TxClosed(inv[i].tx) = 1
              /\ Settled(inv[i].fnState)
        /\ inv[i].pc = "done" =>
              /\ inv[i].fnState.kind = "resolved" =>
                    /\ wrappedResult(i) = Resolved(inv[i].fnState.val)
                    /\ txs[inv[i].tx].commits = 1
              /\ Failed(inv[i].fnState) =>
                    /\ wrappedResult(i) = Rejected(inv[i].fnState.val)
                    /\ txs[inv[i].tx].rollbacks = 1

\* C3 witness: one returned promise rejected with e2 (the operation's error)
\* and another resolved with v2 (the operation's value).
C3_Witness ==
    \E i, j \in Invs :
        /\ inv[i].plan.outcome = Rejected("e2") /\ wrappedResult(i) = Rejected("e2")
        /\ inv[j].plan.outcome = Resolved("v2") /\ wrappedResult(j) = Resolved("v2")

(***************************************************************************)
(* Claims about the upsert primitives (checked under SpecUpsert, where the *)
(* calls are made one after the other)                                     *)
(***************************************************************************)

\* C4: starting from a store with no row matching body, two getOrInsertId
\* calls with the same body made one after the other return the same id and
\* leave exactly one matching row: the first call inserts, the second writes
\* nothing.
C4_SequentialGetOrInsert ==
    LET c == call[1]
    IN  (/\ prev.op = "getOrInsertId"
         /\ c.op = "getOrInsertId" /\ c.pc = "done"
         /\ c.resource = prev.resource /\ c.arg = prev.arg) =>
            /\ Len(prev.writes) = 1 /\ prev.writes[1] = PostReq(prev.resource, prev.arg)
            /\ c.writes = <<>>
            /\ rows = c.before
            /\ Cardinality(Found(c.resource, c.arg)) = 1
            /\ c.result.kind = "resolved" =>
                  /\ c.result.val.id = prev.result.val.id
                  /\ \E r \in Found(c.resource, c.arg) : r.id = c.result.val.id

\* C4 witness: the second of two such calls has resolved.
C4_Witness ==
    /\ prev.op = "getOrInsertId" /\ prev.results = <<>>
    /\ call[1].op = "getOrInsertId" /\ call[1].pc = "done"
    /\ call[1].arg = prev.arg /\ call[1].result.kind = "resolved"
    /\ call[1].before # {}

\* filter merged with updateFields, written out: updateFields' value for each
\* of its keys, filter's value for the keys only filter has.
ExpectedInsert(filter, updateFields) ==
    [f \in DOMAIN filter \cup DOMAIN updateFields |->
        IF f \in DOMAIN updateFields THEN updateFields[f] ELSE filter[f]]

\* C5: when updateOrInsert's lookup returns no row it issues one post of
\* filter merged with updateFields (updateFields winning), the store gains
\* exactly that one row, the call returns the new row's id, and the caller's
\* filter object is left as it was.
C5_InsertOnZero ==
    LET c == call[1]
        body == ExpectedInsert(c.arg, c.upd)
    IN  (c.op = "updateOrInsert" /\ c.pc \in {"post", "patch", "done"}
         /\ c.answered /\ c.results = <<>>) =>
            /\ c.filter = c.arg
            /\ c.writes = <<PostReq(c.resource, body)>>
            /\ c.pc # "patch"
            /\ c.pc = "post" => rows = c.before
            /\ (c.pc = "done" /\ c.result.kind = "rejected") => rows = c.before
            /\ (c.pc = "done" /\ c.result.kind = "resolved") =>
                  /\ c.before \subseteq rows
                  /\ Cardinality(rows \ c.before) = 1
                  /\ \A r \in rows \ c.before :
                        /\ r.id \notin Ids(c.before)
                        /\ r = Row(r.id, c.resource, body)
                        /\ \A f \in DOMAIN c.upd : r.fld[f] = c.upd[f]
                        /\ c.result.val = IdObj(r.id)

\* C5 witness: an insert where filter and updateFields name the same key
\* with different values has resolved.
C5_Witness ==
    LET c == call[1]
    IN  /\ c.op = "updateOrInsert" /\ c.pc = "done" /\ c.results = <<>>
        /\ c.result.kind = "resolved"
        /\ \E f \in DOMAIN c.arg \cap DOMAIN c.upd : c.arg[f] # c.upd[f]
        /\ DOMAIN c.arg # DOMAIN c.upd
        /\ c.before # {}

\* C6: when updateOrInsert's lookup returns exactly one row it issues one
\* patch of that row's id with updateFields and returns that id: the row's
\* fields named in updateFields change, its id and other fields do not, no
\* row is inserted and no other row changes.
C6_PatchOnOne ==
    LET c == call[1]
    IN  (c.op = "updateOrInsert" /\ c.pc \in {"post", "patch", "done"}
         /\ Len(c.results) = 1) =>
            LET id == c.results[1].id
                old == CHOOSE r \in c.before : r.id = id
                new == [old EXCEPT !.fld = [f \in Fields |->
                            IF f \in DOMAIN c.upd THEN c.upd[f] ELSE old.fld[f]]]
            IN  /\ id \in Ids(c.before)
                /\ old.res = c.resource /\ Matches(old, c.arg)
                /\ c.writes = <<PatchReq(c.resource, id, c.upd)>>
                /\ c.pc # "post"
                /\ c.pc = "patch" => rows = c.before
                /\ (c.pc = "done" /\ c.result.kind = "rejected") => rows = c.before
                /\ (c.pc = "done" /\ c.result.kind = "resolved") =>
                      /\ rows = (c.before \ {old}) \cup {new}
                      /\ Ids(rows) = Ids(c.before)
                      /\ Cardinality(rows) = Cardinality(c.before)
                      /\ c.result.val = IdObj(id)

\* C6 witness: a patch that changed one row of a store of two has resolved.
C6_Witness ==
    LET c == call[1]
    IN  /\ c.op = "updateOrInsert" /\ c.pc = "done" /\ Len(c.results) = 1
        /\ c.result.kind = "resolved"
        /\ rows # c.before
        /\ Cardinality(c.before) = 2

\* C7: when updateOrInsert's lookup returns two or more rows the call fails
\* with the not-unique error naming the resource and the filter, issues no
\* post and no patch, and leaves the store as it was.
C7_FailOnMany ==
    LET c == call[1]
    IN  (c.op = "updateOrInsert" /\ c.pc \in {"post", "patch", "done"}
         /\ Len(c.results) >= 2) =>
            /\ c.pc = "done"
            /\ c.result = Rejected(NotUniqueError(c.resource, c.arg))
            /\ c.writes = <<>>
            /\ rows = c.before

\* C7 witness: a call whose lookup found two rows has failed.
C7_Witness ==
    LET c == call[1]
    IN  /\ c.op = "updateOrInsert" /\ c.pc = "done" /\ Len(c.results) = 2
        /\ c.result.kind = "rejected"
        /\ c.result.val.type # "storeError"

\* C8: a call of updateOrInsert issues at most one write (a post or a
\* patch), whatever its lookup returned and whether or not the write failed,
\* and the store differs from what it was by at most one row.
C8_AtMostOneWrite ==
    LET c == call[1]
    IN  c.op = "updateOrInsert" =>
            /\ Len(c.writes) <= 1
            /\ c.pc \in {"get", "then"} => c.writes = <<>>
            /\ Cardinality(rows \ c.before) <= 1
            /\ Cardinality(c.before \ rows) <= 1

\* C8 witness: the one write of a call has failed and the call is over.
C8_Witness ==
    LET c == call[1]
    IN  /\ c.op = "updateOrInsert" /\ c.pc = "done" /\ Len(c.writes) = 1
        /\ c.result = Rejected(StoreError)

(***************************************************************************)
(* Claims about the affected-ids memo (checked under SpecMemo)             *)
(***************************************************************************)

ResolverCalls(r) == {i \in 1..Len(promises) : promises[i].req = r}
CallsOf(r) == {j \in 1..Len(memoLog) : memoLog[j].req = r}

\* C9: within one request sbvrUtils.getAffectedIds is invoked at most once,
\* however often getCurrentRequestAffectedIds is called and whether or not
\* the first computation has ended, and every caller of the request gets the
\* one promise stored on the request.
C9_ComputedOncePerRequest ==
    \A r \in Reqs :
        /\ Cardinality(ResolverCalls(r)) <= 1
        /\ CallsOf(r) # {} => Cardinality(ResolverCalls(r)) = 1
        /\ \A j \in CallsOf(r) :
              /\ memoLog[j].ret = affectedIds[r]
              /\ memoLog[j].ret \in ResolverCalls(r)
        /\ \A j, k \in CallsOf(r) : memoLog[j].ret = memoLog[k].ret

\* C9 witness: a request was asked twice while its computation was still in
\* flight, and another request has a computation of its own.
C9_Witness ==
    \E r, q \in Reqs :
        /\ r # q
        /\ \E j, k \in CallsOf(r) :
              j < k /\ memoLog[k].seen = "pending" /\ memoLog[j].args # memoLog[k].args
        /\ CallsOf(q) # {}
        /\ affectedIds[q] # affectedIds[r]

(***************************************************************************)
(* Claims about the cascading delete (checked under SpecCascade)           *)
(***************************************************************************)

\* The deletes a dependents list declares, in order: each dependent, followed
\* by its sub-dependent when it has one.
RECURSIVE FlatFrom(_, _)
FlatFrom(deps, i) ==
    IF i > Len(deps) THEN <<>>
    ELSE <<[idx |-> i, level |-> "dep", resource |-> deps[i].dependent]>>
         \o (IF deps[i].sub # NoSub
             THEN <<[idx |-> i, level |-> "sub", resource |-> deps[i].sub.resource]>>
             ELSE <<>>)
         \o FlatFrom(deps, i + 1)
Payload(e) == [idx |-> e.idx, level |-> e.level, resource |-> e.resource]
IsIssue(e) == e.ev = "issue"
IsOk(e) == e.ev = "ok"
CountBefore(n, ev) == Cardinality({m \in 1..(n - 1) : clog[m].ev = ev})

\* C10: with a non-empty set of affected ids the deletes are issued in the
\* declared order and one at a time: each only after the one before it has
\* succeeded, a sub-dependent's right after its own dependent's succeeded and
\* before the next dependent's; the hook succeeds, and the primary rows are
\* deleted, only after every declared delete has succeeded.
C10_CascadeInOrder ==
    LET flat == FlatFrom(casc.deps, 1)
        issues == SelectSeq(clog, IsIssue)
        oks == SelectSeq(clog, IsOk)
    IN  /\ Len(issues) <= Len(flat)
        /\ \A n \in 1..Len(issues) : Payload(issues[n]) = flat[n]
        /\ Len(oks) <= Len(issues)
        /\ \A n \in 1..Len(oks) : Payload(oks[n]) = flat[n]
        /\ Cardinality(casc.pending) <= 1
        /\ \A n \in 1..Len(clog) :
              /\ clog[n].ev = "issue" =>
                    /\ CountBefore(n, "ok") = CountBefore(n, "issue")
                    /\ CountBefore(n, "fail") = 0
              /\ (clog[n].ev = "issue" /\ clog[n].level = "sub") =>
                    /\ n > 1
                    /\ clog[n - 1] = [ev |-> "ok", idx |-> clog[n].idx, level |-> "dep",
                                      resource |-> casc.deps[clog[n].idx].dependent]
              /\ (clog[n].ev = "primaryDelete" /\ casc.ids # {}) =>
                    /\ CountBefore(n, "ok") = Len(flat)
                    /\ CountBefore(n, "fail") = 0
        /\ (casc.pc \in {"ok", "deleted", "committed"} /\ casc.ids # {}) =>
              Len(oks) = Len(flat)

\* C10 witness: a cascade over a dependent without and a dependent with a
\* sub-dependent has run to the end and the primary rows are deleted.
C10_Witness ==
    /\ casc.pc = "committed"
    /\ casc.ids # {}
    /\ Len(casc.deps) = 2
    /\ casc.deps[1].sub = NoSub
    /\ casc.deps[2].sub # NoSub
    /\ casc.deps[1].dependent # casc.deps[2].dependent
    /\ Len(clog) = 7

\* The position of the delete of entry idx at the given level among the
\* deletes the dependents list declares.
RECURSIVE FlatPos(_, _, _)
FlatPos(flat, idx, level) ==
    IF flat = <<>> THEN 0
    ELSE IF flat[1].idx = idx /\ flat[1].level = level THEN 1
    ELSE 1 + FlatPos(Tail(flat), idx, level)
Fails == {n \in 1..Len(clog) : clog[n].ev = "fail"}
PrimaryRows(rs) == {r \in rs : r.res = Primary}

\* C11: once the delete of a dependent or of a sub-dependent has failed,
\* nothing more is issued (not the failed dependent's own sub-dependent, not
\* a later entry of the list): the failed delete is the last one issued, the
\* hook has failed, and the primary rows are never deleted.
C11_AbortOnFailure ==
    \A n \in Fails :
        LET flat == FlatFrom(casc.deps, 1)
            issues == SelectSeq(clog, IsIssue)
        IN  /\ n = Len(clog)
            /\ casc.pc \in {"failed", "rolledback"}
            /\ casc.error = StoreError
            /\ casc.pending = {}
            /\ Len(issues) = FlatPos(flat, clog[n].idx, clog[n].level)
            /\ Payload(issues[Len(issues)]) = Payload(clog[n])
            /\ \A m \in 1..Len(clog) : clog[m].ev # "primaryDelete"
            /\ PrimaryRows(wrows) = PrimaryRows(CascInitRows)

\* C11 witness: the first of two dependents, which has a sub-dependent,
\* failed; only its own delete was issued and the request is over.
C11_Witness ==
    /\ casc.pc = "rolledback"
    /\ Len(casc.deps) = 2
    /\ casc.deps[1].sub # NoSub
    /\ Len(clog) = 2
    /\ clog[2].ev = "fail" /\ clog[2].level = "dep" /\ clog[2].idx = 1

\* C12: when the cascade has failed, at whatever step, the committed rows
\* are those from before the request, and once the transaction is rolled
\* back the request's own view shows them again; the committed rows change
\* only when the whole request commits.
C12_RollbackRestores ==
    /\ casc.pc \in {"failed", "rolledback"} => crows = CascInitRows
    /\ casc.pc = "rolledback" => wrows = CascInitRows
    /\ casc.pc # "committed" => crows = CascInitRows
    /\ casc.pc = "committed" => crows = wrows

\* C12 witness: the sub-dependent of the second dependent failed after two
\* deletes had removed rows, and the rollback is done.
C12_Witness ==
    /\ casc.pc = "rolledback"
    /\ Len(casc.deps) = 2
    /\ Cardinality({n \in 1..Len(clog) : clog[n].ev = "ok"}) = 2
    /\ clog[Len(clog)].ev = "fail" /\ clog[Len(clog)].level = "sub"
    /\ clog[Len(clog)].idx = 2

\* The lookup of the affected ids of the request has answered: no ids.
NoAffectedIds ==
    /\ casc.pc \notin {"idle", "prerun"}
    /\ promises[casc.promise].state = Resolved({})

\* C13: when the affected ids are the empty set the hook issues no delete,
\* of a dependent or of a sub-dependent, reports nothing and succeeds.
C13_EmptyIdsNoOp ==
    (NoAffectedIds /\ casc.pc # "ids") =>
        /\ casc.pc \in {"ok", "deleted", "committed"}
        /\ \A n \in 1..Len(clog) : clog[n].ev = "primaryDelete"
        /\ casc.started = {} /\ casc.pending = {}
        /\ captured = <<>>
        /\ wrows = CascInitRows /\ crows = CascInitRows

\* C13 witness: a hook with two dependents, one with a sub-dependent, has
\* succeeded for an empty set of ids without issuing anything.
C13_Witness ==
    /\ NoAffectedIds
    /\ casc.pc = "ok"
    /\ Len(casc.deps) = 2
    /\ \E i \in 1..2 : casc.deps[i].sub # NoSub
    /\ clog = <<>>

\* The foreign-key field the hook declares for the delete an event is about.
FieldOf(e) ==
    IF e.level = "dep" THEN casc.deps[e.idx].field ELSE casc.deps[e.idx].sub.field
\* The deletes that have succeeded so far.
Oks == {n \in 1..Len(clog) : clog[n].ev = "ok"}
\* The rows those deletes should have removed: the rows of their resource
\* whose declared foreign key is one of the affected ids.
Removed(rs) ==
    {r \in rs : \E n \in Oks :
        r.res = clog[n].resource /\ r.fld[FieldOf(clog[n])] \in casc.ids}
PrimaryRemoved(rs) ==
    IF casc.pc \in {"deleted", "committed"}
    THEN {r \in rs : r.res = Primary /\ r.id \in casc.ids}
    ELSE {}

\* C16: every delete the cascade issues, for a dependent and for a
\* sub-dependent alike, names the declared foreign-key field and the affected
\* ids of the primary resource; the rows gone from the request's view are
\* exactly the rows of the resources deleted so far whose foreign key is one
\* of those ids, and every other row is as it was.
C16_DeleteByForeignKey ==
    /\ \A q \in casc.pending :
          /\ q.ids = casc.ids
          /\ q = IF q.level = "dep" THEN DeleteReq(q.idx, "dep", casc.deps[q.idx].dependent,
                                                  casc.deps[q.idx].field, casc.ids)
                  ELSE DeleteReq(q.idx, "sub", casc.deps[q.idx].sub.resource,
                                 casc.deps[q.idx].sub.field, casc.ids)
    /\ casc.pc \in {"running", "ok", "failed", "deleted", "committed"} =>
          wrows = (CascInitRows \ Removed(CascInitRows)) \ PrimaryRemoved(CascInitRows)
    /\ casc.pc = "committed" =>
          crows = (CascInitRows \ Removed(CascInitRows)) \ PrimaryRemoved(CascInitRows)

\* C16 witness: a cascade for one id over two dependents with different
\* foreign-key fields, one with a sub-dependent, is committed; rows were
\* removed from each resource and rows with the other id are still there.
C16_Witness ==
    /\ casc.pc = "committed"
    /\ casc.ids = {1}
    /\ Len(casc.deps) = 2
    /\ casc.deps[1].field # casc.deps[2].field
    /\ casc.deps[1].dependent # casc.deps[2].dependent
    /\ casc.deps[2].sub # NoSub
    /\ Cardinality(Oks) = 3
    /\ \A n \in Oks :
          /\ \E r \in CascInitRows \ crows : r.res = clog[n].resource
          /\ \E r \in crows : r.res = clog[n].resource

\* C17: every report made to captureException for a failed delete carries
\* the name of the resource whose delete failed, the name of the primary
\* (parent) resource and the request, for a sub-dependent as for a dependent.
C17_ReportNamesParent ==
    \A n \in 1..Len(captured) :
        /\ \E m \in Fails : captured[n].resource = clog[m].resource
        /\ captured[n].parent = casc.resource
        /\ captured[n].req = TheReq

\* C18: a failed delete is reported exactly once and nothing else is: there
\* is one report for the one delete that failed, naming that delete's
\* resource and carrying the error the hook then fails with; no report
\* exists while nothing has failed, and after a report the hook has failed.
C18_ReportedOnce ==
    /\ Len(captured) = Cardinality(Fails)
    /\ Len(captured) <= 1
    /\ \A m \in Fails :
          /\ captured[1].resource = clog[m].resource
          /\ captured[1].err = casc.error
          /\ captured[1].req = TheReq
    /\ captured # <<>> => casc.pc \in {"failed", "rolledback"}
    /\ casc.pc \in {"ok", "deleted", "committed"} => captured = <<>>

\* C18 witness: the sub-dependent of the second dependent failed after two
\* deletes had succeeded; there is the one report, for the sub-dependent.
C18_Witness ==
    /\ casc.pc = "failed"
    /\ Cardinality(Oks) = 2
    /\ \E m \in Fails : clog[m].level = "sub" /\ clog[m].idx = 2
    /\ captured = <<SubReport(StoreError, casc.deps[2].sub.resource, TheReq)>>

(***************************************************************************)
(* More claims about the affected-ids memo (checked under SpecMemo)        *)
(***************************************************************************)

FirstCallOf(r) == CHOOSE j \in CallsOf(r) : \A k \in CallsOf(r) : j <= k

\* A request's memo, once set, stays what it is, and no step starts another
\* computation for that request.
MemoKept ==
    \A r \in Reqs :
        affectedIds[r] # NoPromise =>
            /\ affectedIds'[r] = affectedIds[r]
            /\ Len(promises') = Len(promises) =>
                  promises'[affectedIds[r]].args = promises[affectedIds[r]].args
            /\ \A i \in 1..Len(promises') :
                  promises'[i].req = r => i \in 1..Len(promises)

\* Every caller of a request got the computation the first caller started,
\* with the first caller's arguments, also when it had failed by then.
FirstCallersComputation ==
    \A r \in Reqs : \A j \in CallsOf(r) :
        /\ memoLog[j].ret = memoLog[FirstCallOf(r)].ret
        /\ promises[memoLog[j].ret].args = memoLog[FirstCallOf(r)].args
        /\ promises[memoLog[j].ret].req = r
        /\ memoLog[j].seen = "rejected" =>
              /\ promises[memoLog[j].ret].state = Rejected(StoreError)
              /\ j # FirstCallOf(r)

\* C20: once the first call of getCurrentRequestAffectedIds has set a
\* request's memo it is never replaced or cleared: later callers, whatever
\* arguments they pass, get the first caller's computation, and when that
\* computation has failed they get the same failure and the resolver is not
\* invoked again.
C20_MemoNeverReplaced == [][MemoKept]_vars /\ []FirstCallersComputation

\* C20 witness: a request's computation failed, and a later caller with
\* other arguments was handed that failed computation; the resolver ran once.
C20_Witness ==
    \E r \in Reqs : \E j, k \in CallsOf(r) :
        /\ j < k
        /\ memoLog[j].args # memoLog[k].args
        /\ memoLog[k].seen = "rejected"
        /\ memoLog[k].ret = memoLog[j].ret
        /\ Cardinality(ResolverCalls(r)) = 1

(***************************************************************************)
(* More claims about the upsert primitives                                 *)
(***************************************************************************)

\* C15: when getOrInsertId's lookup returns one or more rows the call writes
\* nothing and resolves with the first row returned, whose id is the id of a
\* row of the resource that matches body; with several matching rows it
\* resolves all the same.
C15_ReturnFirstOnMatch ==
    LET c == call[1]
    IN  (c.op = "getOrInsertId" /\ c.pc \in {"post", "patch", "done"}
         /\ Len(c.results) >= 1) =>
            /\ c.pc = "done"
            /\ c.writes = <<>>
            /\ rows = c.before
            /\ c.result = Resolved(c.results[1])
            /\ c.result.val.id = c.results[1].id
            /\ \E r \in rows :
                  r.id = c.result.val.id /\ r.res = c.resource /\ Matches(r, c.arg)

\* C15 witness: the lookup returned two rows and the call resolved with the
\* id of the first of them, here the row with the larger id.
C15_Witness ==
    LET c == call[1]
    IN  /\ c.op = "getOrInsertId" /\ c.pc = "done" /\ Len(c.results) = 2
        /\ c.result.kind = "resolved"
        /\ c.result.val.id = 2
        /\ c.results[2].id = 1

(***************************************************************************)
(* Claims about concurrent upsert calls (checked under SpecRace)           *)
(***************************************************************************)

\* The call found no row and its insert has been answered.
Inserted(c) ==
    /\ c.pc = "done" /\ c.answered /\ c.results = <<>>
    /\ c.result.kind = "resolved"
\* The body a call posts when its lookup found nothing.
PostedBody(c) ==
    IF c.op = "getOrInsertId" THEN c.arg ELSE ExpectedInsert(c.arg, c.upd)

\* C14: the lookup and the insert of getOrInsertId and of updateOrInsert are
\* two steps that other calls can come between: a call whose lookup found
\* nothing posts its row whatever has been inserted meanwhile, so when two
\* concurrent calls with the same body or filter both found nothing, both
\* insert and the store holds two new rows with different ids for them.
C14_BothInsert ==
    /\ \A p \in Callers :
          LET c == call[p]
          IN  (c.answered /\ c.results = <<>> /\ c.pc \in {"post", "patch", "done"}) =>
                  c.writes = <<PostReq(c.resource, PostedBody(c))>>
    /\ \A p, q \in Callers :
          (p # q /\ Inserted(call[p]) /\ Inserted(call[q])) =>
              /\ call[p].result.val.id # call[q].result.val.id
              /\ {call[p].result.val.id, call[q].result.val.id} \subseteq Ids(rows)
              /\ call[p].result.val.id \notin Ids(call[p].before)
              /\ call[q].result.val.id \notin Ids(call[q].before)
              /\ Cardinality(rows) >= 2

\* C14 witness: from a store with no matching row, a getOrInsertId and an
\* updateOrInsert, both in flight at once and both finding nothing, have both
\* inserted: two rows match the filter (here the first calls of both callers).
C14_Witness ==
    /\ ncalls = 2
    /\ \E p, q \in Callers :
          /\ p # q
          /\ call[p].op = "getOrInsertId" /\ call[q].op = "updateOrInsert"
          /\ Inserted(call[p]) /\ Inserted(call[q])
          /\ Found("device", RaceFilter) \cap call[p].before = {}
          /\ Found("device", RaceFilter) \cap call[q].before = {}
    /\ Cardinality(Found("device", RaceFilter)) = 2

\* The rows of a store that match the filter of the calls.
MatchingIn(rs) == {r \in rs : r.res = "device" /\ Matches(r, RaceFilter)}
\* Two or more rows match the filter.
Duplicates == Cardinality(MatchingIn(rows)) >= 2
\* The call was started when two or more rows matched its filter.
StartedAmongDuplicates(c) == c.pc # "idle" /\ Cardinality(MatchingIn(c.before)) >= 2

\* C19 as claimed: when two or more rows matched the filter at the start of
\* a call, they still do; an updateOrInsert among such calls, once its lookup
\* was answered, fails with the not-unique error and has written nothing; a
\* getOrInsertId among them resolves.
C19_StuckAfterDuplicates ==
    \A p \in Callers :
        LET c == call[p]
        IN  StartedAmongDuplicates(c) =>
                /\ Duplicates
                /\ (c.op = "updateOrInsert" /\ c.answered /\ c.pc \in {"post", "patch", "done"}) =>
                      /\ c.pc = "done"
                      /\ c.result = Rejected(NotUniqueError(c.resource, c.arg))
                      /\ c.writes = <<>>
                /\ (c.op = "getOrInsertId" /\ c.answered /\ c.pc = "done") =>
                      c.result.kind = "resolved"

\* An updateOrInsert in flight whose lookup found one row, with updateFields
\* that set a field of the filter to another value: its patch will take the
\* row out of the rows the filter matches.
PatchesOut(c) ==
    /\ c.op = "updateOrInsert"
    /\ c.pc \in {"then", "patch"}
    /\ Len(c.results) = 1
    /\ \E f \in DOMAIN c.arg \cap DOMAIN c.upd : c.upd[f] # c.arg[f]
\* Two or more rows match and no call in flight is about to patch one out.
DuplicatesStable == Duplicates /\ \A p \in Callers : ~PatchesOut(call[p])

\* What a step does to caller p's call when two or more rows match.
StuckStep(p) ==
    LET c == call[p]
        d == call'[p]
    IN  /\ (c.pc = "get" /\ d.pc = "then") => Len(d.results) >= 2
        /\ (c.pc = "then" /\ Len(c.results) >= 2 /\ d # c) =>
              /\ d.pc = "done"
              /\ d.writes = <<>>
              /\ rows' = rows
              /\ c.op = "updateOrInsert" =>
                    d.result = Rejected(NotUniqueError(c.resource, c.arg))
              /\ c.op = "getOrInsertId" =>
                    /\ d.result = Resolved(c.results[1])
                    /\ c.results[1].id \in Ids(MatchingIn(rows))

\* C19 as amended: once two or more rows match the filter and no
\* updateOrInsert that found a single row earlier is still about to patch it
\* out of the filter, that stays so for ever: every lookup returns two or
\* more rows, every updateOrInsert so answered fails with the not-unique
\* error and writes nothing, every getOrInsertId so answered resolves with
\* the id of a matching row and writes nothing, and no matching row is lost.
C19_DuplicatesPersist ==
    [][DuplicatesStable =>
          /\ DuplicatesStable'
          /\ Ids(MatchingIn(rows)) \subseteq Ids(MatchingIn(rows'))
          /\ \A p \in Callers : StuckStep(p)]_vars

\* C19 witness: after both callers' first calls raced and inserted, their
\* second calls, an updateOrInsert and a getOrInsertId started among the
\* duplicates, have ended: the one failed as not unique, the other resolved.
C19_Witness ==
    /\ DuplicatesStable
    /\ ncalls = 4
    /\ \E p, q \in Callers :
          /\ p # q
          /\ StartedAmongDuplicates(call[p]) /\ StartedAmongDuplicates(call[q])
          /\ call[p].op = "updateOrInsert" /\ call[p].pc = "done"
          /\ call[p].result = Rejected(NotUniqueError("device", RaceFilter))
          /\ call[q].op = "getOrInsertId" /\ call[q].pc = "done"
          /\ call[q].result.kind = "resolved"
    /\ Cardinality(MatchingIn(rows)) = 2

====
